---------------------------- MODULE Spec2Model ----------------------------
(***************************************************************************)
(* State-machine model of irc.Connection (src/irc/irc.go): the four        *)
(* goroutine roles Sender, Receiver, Cleaner and Keeper, the channels and  *)
(* the socket they share, and the collaborators around them (a producer on *)
(* c.Input, a consumer on c.Output, a forced failure signal on c.Quit, the *)
(* IRC server on the other end of the socket).                             *)
(*                                                                         *)
(* Go channels are heap objects: the fields c.Input, c.Output, c.quitsend  *)
(* and c.quitrecv hold references that Keeper replaces on every iteration. *)
(* Keeper makes the four channels together, so one number names the set:   *)
(* channel set g is the one made by Keeper's g-th iteration, and 0 is the  *)
(* nil channel of a Connection whose Keeper has not run yet.  Socket s is  *)
(* the one dialled by Keeper's s-th iteration; 0 is the nil conn.          *)
(* A select evaluates its channel operands once and then waits on those    *)
(* channel objects, so every role keeps the references it evaluated.       *)
(*                                                                         *)
(* Granularity.  One action is one blocking operation of a goroutine (a    *)
(* channel send or receive, Lock, ReadString) together with the            *)
(* non-blocking statements that follow it.  Sender and Receiver read the   *)
(* fields of the Connection without holding c.l, so every read of c.Input, *)
(* c.Output, c.reader and c.writer sees the value of that moment.  Keeper  *)
(* closes and replaces the four channels in one step: a role that reads    *)
(* the fields between the close and the make sees closed channels, which   *)
(* is what a role that read them just before the close holds as well.      *)
(***************************************************************************)
EXTENDS Integers, Sequences, FiniteSets, TLC

\* Keeper iterations (generations) explored.
MaxGen == 2
\* Failure signals a collaborator raises on c.Quit.
MaxForce == 1
\* Application messages a collaborator submits on c.Input.
MaxSubmit == 1
\* Lines the server delivers over all sockets.
MaxLines == 1
\* Application messages submitted in the runs without failure.
MaxFifo == 3
\* Keeper iterations explored in the runs where no collaborator forces a failure.
RecvGens == 1
\* Largest server pool passed to Setup.
MaxServers == 2
\* Longest protocol line given to the codec.
MaxLineLen == 8
\* Longest trailing text given to linktitle, in pieces of text.
MaxTrailing == 4
\* Capacity of every channel made by Keeper and Setup: make(chan ..., 1).
ChanCap == 1

Gens == 1..MaxGen

\* irc.Message, as far as the roles look at it: the command, and for the
\* messages of a collaborator the position in its submissions.
NickMsg == [Command |-> "NICK", n |-> 0]
UserMsg == [Command |-> "USER", n |-> 0]
AppMsg(k) == [Command |-> "PRIVMSG", n |-> k]
\* Message{}: what a receive from a closed channel yields.
ZeroMsg == [Command |-> "", n |-> 0]
NoChan == 0
NoConn == 0
\* No send statement of the collaborator is under way.
NotSending == -1

VARIABLES
    reconnect,  \* c.reconnect: number of buffered tokens
    Quit,       \* c.Quit: buffered failure signals, each tagged with the socket
                \* whose Receiver raised it (NoConn: raised by a collaborator)
    cgen,       \* the channel set held by c.Input, c.Output, c.quitsend, c.quitrecv
    conn,       \* the socket held by c.conn, c.reader, c.writer
    l,          \* c.l: "free", "keeper" or "cleaner"
    Input,      \* Input[g]: buffer of channel c.Input of set g
    Output,     \* Output[g]: buffer of channel c.Output of set g
    quitsend,   \* quitsend[g]: tokens buffered in c.quitsend of set g
    quitrecv,   \* quitrecv[g]: tokens buffered in c.quitrecv of set g
    sock,       \* sock[s]: "none", "open", "peer" (closed by the server), "closed"
    rbuf,       \* rbuf[s]: complete lines waiting in the bufio.Reader of socket s
    k_pc,       \* Keeper's position
    dialled,    \* dialled[g]: outcome of Keeper's g-th Dial: "no", "ok", "fail"
    server,     \* server[g]: index in the pool of the address the g-th Dial got
    c_pc,       \* Cleaner's position
    c_sig,      \* the tag of the failure signal Cleaner is acting on
    s_pc, s_ch, s_msg,          \* Sender i: position, channels of its select, message taken
    r_pc, r_rd, r_ch,           \* Receiver i: position, reader in use (and the socket its
                                \* message came from), channels of its select
    panicked,   \* the process died of a run-time panic
    budget,     \* what the environment may do in this run: Keeper iterations
                \* explored, forced failure signals, submissions, lines; and
                \* len(servers), the size of the pool passed to Setup
    forced, submitted, lines,   \* what the collaborators and the server did so far
    p_ch,       \* the channel a collaborator is sending on: c.Input as it was
                \* when the send statement evaluated it, NotSending otherwise
    ended,      \* a collaborator's receive on c.Output reported a closed channel
    stage, line, parsed, serialized,    \* the codec at work on one line
    trailing, replies,                  \* linktitle at work on one message
    enq,        \* history: enq[g] = messages sent on Input of set g, in order
    wire,       \* history: wire[s] = messages written to socket s, in order
    tdn,        \* history: tdn[g] = teardowns Cleaner completed on channel set g
    closes,     \* history: closes[s] = calls of Close on socket s
    readFailed  \* history: readFailed[s] = a read of socket s returned an error

chanVars == <<reconnect, Quit, cgen, conn, l, Input, Output, quitsend, quitrecv>>
sockVars == <<sock, rbuf>>
keeperVars == <<k_pc, dialled, server>>
cleanerVars == <<c_pc, c_sig>>
senderVars == <<s_pc, s_ch, s_msg>>
receiverVars == <<r_pc, r_rd, r_ch>>
collabVars == <<p_ch, ended>>
pureVars == <<stage, line, parsed, serialized, trailing, replies>>
envVars == <<budget, forced, submitted, lines, collabVars, pureVars>>
histVars == <<enq, wire, tdn, closes, readFailed>>
vars == <<chanVars, sockVars, keeperVars, cleanerVars, senderVars, receiverVars,
          panicked, envVars, histVars>>

\* close(ch) in Keeper: the channels of set g are closed when Keeper replaces them.
IsClosed(g) == g # NoChan /\ g < cgen

\* The state Setup leaves behind: reconnect and Quit made, one token on
\* reconnect, Keeper and Cleaner spawned, every other field zero.
Setup ==
    /\ reconnect = 1
    /\ Quit = <<>>
    /\ cgen = NoChan
    /\ conn = NoConn
    /\ l = "free"
    /\ Input = [g \in Gens |-> <<>>]
    /\ Output = [g \in Gens |-> <<>>]
    /\ quitsend = [g \in Gens |-> 0]
    /\ quitrecv = [g \in Gens |-> 0]
    /\ sock = [g \in Gens |-> "none"]
    /\ rbuf = [g \in Gens |-> 0]
    /\ k_pc = "recv"
    /\ dialled = [g \in Gens |-> "no"]
    /\ server = [g \in Gens |-> 0]
    /\ c_pc = "recv"
    /\ c_sig = 0
    /\ s_pc = [g \in Gens |-> "idle"]
    /\ s_ch = [g \in Gens |-> NoChan]
    /\ s_msg = [g \in Gens |-> ZeroMsg]
    /\ r_pc = [g \in Gens |-> "idle"]
    /\ r_rd = [g \in Gens |-> NoConn]
    /\ r_ch = [g \in Gens |-> NoChan]
    /\ panicked = FALSE
    /\ forced = 0 /\ submitted = 0 /\ lines = 0
    /\ p_ch = NotSending /\ ended = FALSE
    /\ enq = [g \in Gens |-> <<>>]
    /\ wire = [g \in Gens |-> <<>>]
    /\ tdn = [g \in Gens |-> 0]
    /\ closes = [g \in Gens |-> 0]
    /\ readFailed = [g \in Gens |-> FALSE]

\* Keeper's g-th iteration has called Dial.
Attempted(g) == dialled[g] # "no"

\* The codec is not at work.
CodecIdle == line = <<>> /\ parsed = <<>> /\ serialized = <<>>

\* linktitle is not at work.
LinktitleIdle == trailing = <<>> /\ replies = <<>>

\* Neither the codec nor linktitle is at work.
PureIdle == stage = "off" /\ CodecIdle /\ LinktitleIdle

-----------------------------------------------------------------------------
(* Keeper *)

\* <-c.reconnect.  The run explores budget.gens iterations of Keeper.
KeeperRecv ==
    /\ ~panicked /\ k_pc = "recv"
    /\ reconnect > 0
    /\ cgen < budget.gens
    /\ reconnect' = reconnect - 1
    /\ k_pc' = "lock"
    /\ UNCHANGED <<Quit, cgen, conn, l, Input, Output, quitsend, quitrecv, sockVars,
                   dialled, server, cleanerVars, senderVars, receiverVars, panicked, envVars, histVars>>

\* c.l.Lock(); close the four channels if c.Input != nil; make four new ones.
KeeperMake ==
    /\ ~panicked /\ k_pc = "lock"
    /\ l = "free"
    /\ l' = "keeper"
    /\ cgen' = cgen + 1
    /\ k_pc' = "dial"
    /\ UNCHANGED <<reconnect, Quit, conn, Input, Output, quitsend, quitrecv, sockVars,
                   dialled, server, cleanerVars, senderVars, receiverVars, panicked, envVars, histVars>>

\* As KeeperDialOk, with the index drawn by rand.Intn(len(servers) + 1).
KeeperDialOkWide ==
    /\ ~panicked /\ k_pc = "dial"
    /\ conn' = cgen
    /\ sock' = [sock EXCEPT ![cgen] = "open"]
    /\ dialled' = [dialled EXCEPT ![cgen] = "ok"]
    /\ \E k \in 1..(budget.servers + 1) : server' = [server EXCEPT ![cgen] = k]
    /\ l' = "free"
    /\ k_pc' = "spawn"
    /\ UNCHANGED <<reconnect, Quit, cgen, Input, Output, quitsend, quitrecv, rbuf,
                   cleanerVars, senderVars, receiverVars, panicked, envVars, histVars>>

\* server := servers[rand.Intn(len(servers))], an index of the pool drawn at
\* random; c.Dial(server) succeeds: writer, reader and conn are replaced;
\* c.l.Unlock().
KeeperDialOk ==
    /\ ~panicked /\ k_pc = "dial"
    /\ conn' = cgen
    /\ sock' = [sock EXCEPT ![cgen] = "open"]
    /\ dialled' = [dialled EXCEPT ![cgen] = "ok"]
    /\ \E k \in 1..budget.servers : server' = [server EXCEPT ![cgen] = k]
    /\ l' = "free"
    /\ k_pc' = "spawn"
    /\ UNCHANGED <<reconnect, Quit, cgen, Input, Output, quitsend, quitrecv, rbuf,
                   cleanerVars, senderVars, receiverVars, panicked, envVars, histVars>>

\* server := servers[rand.Intn(len(servers))]; c.Dial(server) fails: the error is dropped, writer, reader and conn keep
\* their previous values; c.l.Unlock().
KeeperDialFail ==
    /\ ~panicked /\ k_pc = "dial"
    /\ dialled' = [dialled EXCEPT ![cgen] = "fail"]
    /\ \E k \in 1..budget.servers : server' = [server EXCEPT ![cgen] = k]
    /\ l' = "free"
    /\ k_pc' = "spawn"
    /\ UNCHANGED <<reconnect, Quit, cgen, conn, Input, Output, quitsend, quitrecv, sockVars,
                   cleanerVars, senderVars, receiverVars, panicked, envVars, histVars>>

\* rand.Intn(0) on an empty pool: "invalid argument to Intn", the process
\* dies in Keeper, after the channels were made and with c.l held.
KeeperPickEmpty ==
    /\ ~panicked /\ k_pc = "dial"
    /\ budget.servers = 0
    /\ panicked' = TRUE
    /\ UNCHANGED <<chanVars, sockVars, keeperVars, cleanerVars, senderVars, receiverVars,
                   envVars, histVars>>

\* As KeeperSpawn, but the roles started are those of the next iteration,
\* whose channels Keeper has not made yet.
KeeperSpawnEarly ==
    /\ ~panicked /\ k_pc = "spawn"
    /\ cgen + 1 \in Gens
    /\ s_pc' = [s_pc EXCEPT ![cgen + 1] = "loop"]
    /\ r_pc' = [r_pc EXCEPT ![cgen + 1] = "read"]
    /\ k_pc' = "nick"
    /\ UNCHANGED <<chanVars, sockVars, dialled, server, cleanerVars, s_ch, s_msg, r_rd, r_ch,
                   panicked, envVars, histVars>>

\* go c.Sender(); go c.Receiver()
KeeperSpawn ==
    /\ ~panicked /\ k_pc = "spawn"
    /\ s_pc' = [s_pc EXCEPT ![cgen] = "loop"]
    /\ r_pc' = [r_pc EXCEPT ![cgen] = "read"]
    /\ k_pc' = "nick"
    /\ UNCHANGED <<chanVars, sockVars, dialled, server, cleanerVars, s_ch, s_msg, r_rd, r_ch,
                   panicked, envVars, histVars>>

\* c.Input <- m, as Keeper and the collaborators execute it on channel set g.
SendInput(g, m) ==
    /\ g # NoChan
    /\ Len(Input[g]) < ChanCap
    /\ Input' = [Input EXCEPT ![g] = Append(@, m)]
    /\ enq' = [enq EXCEPT ![g] = Append(@, m)]

\* c.Input <- Message{Command: "NICK", Trailing: c.Nick}
KeeperNick ==
    /\ ~panicked /\ k_pc = "nick"
    /\ SendInput(cgen, NickMsg)
    /\ k_pc' = "user"
    /\ UNCHANGED <<reconnect, Quit, cgen, conn, l, Output, quitsend, quitrecv, sockVars,
                   dialled, server, cleanerVars, senderVars, receiverVars, panicked, envVars,
                   wire, tdn, closes, readFailed>>

\* c.Input <- Message{Command: "USER", ...}
KeeperUser ==
    /\ ~panicked /\ k_pc = "user"
    /\ SendInput(cgen, UserMsg)
    /\ k_pc' = "recv"
    /\ UNCHANGED <<reconnect, Quit, cgen, conn, l, Output, quitsend, quitrecv, sockVars,
                   dialled, server, cleanerVars, senderVars, receiverVars, panicked, envVars,
                   wire, tdn, closes, readFailed>>

Keeper ==
    \/ KeeperRecv \/ KeeperMake \/ KeeperDialOk \/ KeeperSpawn \/ KeeperNick \/ KeeperUser

-----------------------------------------------------------------------------
(* Cleaner *)

\* <-c.Quit
CleanerRecv ==
    /\ ~panicked /\ c_pc = "recv"
    /\ Quit # <<>>
    /\ c_sig' = Head(Quit)
    /\ Quit' = Tail(Quit)
    /\ c_pc' = "lock"
    /\ UNCHANGED <<reconnect, cgen, conn, l, Input, Output, quitsend, quitrecv, sockVars,
                   keeperVars, senderVars, receiverVars, panicked, envVars, histVars>>

\* c.l.Lock()
CleanerLock ==
    /\ ~panicked /\ c_pc = "lock"
    /\ l = "free"
    /\ l' = "cleaner"
    /\ c_pc' = "qs"
    /\ UNCHANGED <<reconnect, Quit, cgen, conn, Input, Output, quitsend, quitrecv, sockVars,
                   keeperVars, c_sig, senderVars, receiverVars, panicked, envVars, histVars>>

\* c.quitsend <- struct{}{}: a send on the nil channel never completes.
CleanerStopSender ==
    /\ ~panicked /\ c_pc = "qs"
    /\ cgen # NoChan
    /\ quitsend[cgen] < ChanCap
    /\ quitsend' = [quitsend EXCEPT ![cgen] = @ + 1]
    /\ c_pc' = "qr"
    /\ UNCHANGED <<reconnect, Quit, cgen, conn, l, Input, Output, quitrecv, sockVars,
                   keeperVars, c_sig, senderVars, receiverVars, panicked, envVars, histVars>>

\* c.quitrecv <- struct{}{}
CleanerStopReceiver ==
    /\ ~panicked /\ c_pc = "qr"
    /\ cgen # NoChan
    /\ quitrecv[cgen] < ChanCap
    /\ quitrecv' = [quitrecv EXCEPT ![cgen] = @ + 1]
    /\ c_pc' = "rc"
    /\ UNCHANGED <<reconnect, Quit, cgen, conn, l, Input, Output, quitsend, sockVars,
                   keeperVars, c_sig, senderVars, receiverVars, panicked, envVars, histVars>>

\* c.reconnect <- struct{}{}
CleanerReconnect ==
    /\ ~panicked /\ c_pc = "rc"
    /\ reconnect < ChanCap
    /\ reconnect' = reconnect + 1
    /\ c_pc' = "close"
    /\ UNCHANGED <<Quit, cgen, conn, l, Input, Output, quitsend, quitrecv, sockVars,
                   keeperVars, c_sig, senderVars, receiverVars, panicked, envVars, histVars>>

\* c.conn.Close(); c.l.Unlock().  Close on an already closed socket returns
\* an error that is dropped.
CleanerClose ==
    /\ ~panicked /\ c_pc = "close"
    /\ conn # NoConn
    /\ sock' = [sock EXCEPT ![conn] = "closed"]
    /\ closes' = [closes EXCEPT ![conn] = @ + 1]
    /\ tdn' = [tdn EXCEPT ![cgen] = @ + 1]
    /\ l' = "free"
    /\ c_pc' = "recv"
    /\ c_sig' = NoConn
    /\ UNCHANGED <<reconnect, Quit, cgen, conn, Input, Output, quitsend, quitrecv, rbuf,
                   keeperVars, senderVars, receiverVars, panicked, envVars,
                   enq, wire, readFailed>>

\* c.conn.Close() on the nil conn of a Connection that never dialled
\* successfully: nil pointer dereference, the process dies.
CleanerCloseNil ==
    /\ ~panicked /\ c_pc = "close"
    /\ conn = NoConn
    /\ panicked' = TRUE
    /\ UNCHANGED <<chanVars, sockVars, keeperVars, cleanerVars, senderVars, receiverVars,
                   envVars, histVars>>

Cleaner ==
    \/ CleanerRecv \/ CleanerLock \/ CleanerStopSender \/ CleanerStopReceiver
    \/ CleanerReconnect \/ CleanerClose

-----------------------------------------------------------------------------
(* Sender *)

\* The select of Sender evaluates c.Input and c.quitsend.
SenderSelect(i) ==
    /\ ~panicked /\ s_pc[i] = "loop"
    /\ s_ch' = [s_ch EXCEPT ![i] = cgen]
    /\ s_pc' = [s_pc EXCEPT ![i] = "select"]
    /\ UNCHANGED <<chanVars, sockVars, keeperVars, cleanerVars, s_msg, receiverVars,
                   panicked, envVars, histVars>>

\* case msg := <-c.Input: a buffered message, or the zero Message of a
\* closed and drained channel.
SenderTake(i) ==
    /\ ~panicked /\ s_pc[i] = "select"
    /\ \/ /\ Input[s_ch[i]] # <<>>
          /\ s_msg' = [s_msg EXCEPT ![i] = Head(Input[s_ch[i]])]
          /\ Input' = [Input EXCEPT ![s_ch[i]] = Tail(@)]
       \/ /\ Input[s_ch[i]] = <<>>
          /\ IsClosed(s_ch[i])
          /\ s_msg' = [s_msg EXCEPT ![i] = ZeroMsg]
          /\ UNCHANGED Input
    /\ s_pc' = [s_pc EXCEPT ![i] = "write"]
    /\ s_ch' = [s_ch EXCEPT ![i] = NoChan]
    /\ UNCHANGED <<reconnect, Quit, cgen, conn, l, Output, quitsend, quitrecv, sockVars,
                   keeperVars, cleanerVars, receiverVars, panicked, envVars, histVars>>

\* case <-c.quitsend: return
SenderStop(i) ==
    /\ ~panicked /\ s_pc[i] = "select"
    /\ \/ /\ quitsend[s_ch[i]] > 0
          /\ quitsend' = [quitsend EXCEPT ![s_ch[i]] = @ - 1]
       \/ /\ quitsend[s_ch[i]] = 0
          /\ IsClosed(s_ch[i])
          /\ UNCHANGED quitsend
    /\ s_pc' = [s_pc EXCEPT ![i] = "done"]
    /\ s_ch' = [s_ch EXCEPT ![i] = NoChan]
    /\ UNCHANGED <<reconnect, Quit, cgen, conn, l, Input, Output, quitrecv, sockVars,
                   keeperVars, cleanerVars, s_msg, receiverVars, panicked, envVars,
                   histVars>>

\* SenderWrite without the Flush: the line stays in the bufio.Writer.
SenderWriteNoFlush(i) ==
    /\ ~panicked /\ s_pc[i] = "write"
    /\ conn # NoConn
    /\ s_msg' = [s_msg EXCEPT ![i] = ZeroMsg]
    /\ s_pc' = [s_pc EXCEPT ![i] = "loop"]
    /\ UNCHANGED <<chanVars, sockVars, keeperVars, cleanerVars, s_ch, receiverVars,
                   panicked, envVars, histVars>>

\* c.writer.WriteString(msg.String() + endline); c.writer.Flush(): the
\* line reaches the server when the socket is open; the error of a write
\* to a closed socket is dropped and Sender goes on.
SenderWrite(i) ==
    /\ ~panicked /\ s_pc[i] = "write"
    /\ conn # NoConn
    /\ wire' = IF sock[conn] = "open"
                 THEN [wire EXCEPT ![conn] = Append(@, s_msg[i])]
                 ELSE wire
    /\ s_msg' = [s_msg EXCEPT ![i] = ZeroMsg]
    /\ s_pc' = [s_pc EXCEPT ![i] = "loop"]
    /\ UNCHANGED <<chanVars, sockVars, keeperVars, cleanerVars, s_ch, receiverVars,
                   panicked, envVars, enq, tdn, closes, readFailed>>

\* c.writer is nil when no Dial has succeeded yet: nil pointer dereference.
SenderWriteNil(i) ==
    /\ ~panicked /\ s_pc[i] = "write"
    /\ conn = NoConn
    /\ panicked' = TRUE
    /\ UNCHANGED <<chanVars, sockVars, keeperVars, cleanerVars, senderVars, receiverVars,
                   envVars, histVars>>

Sender(i) ==
    \/ SenderSelect(i) \/ SenderTake(i) \/ SenderStop(i) \/ SenderWrite(i)

-----------------------------------------------------------------------------
(* Receiver *)

\* c.reader.ReadString(delim) is entered on the reader c.reader holds now.
ReceiverCall(i) ==
    /\ ~panicked /\ r_pc[i] = "read"
    /\ conn # NoConn
    /\ r_rd' = [r_rd EXCEPT ![i] = conn]
    /\ r_pc' = [r_pc EXCEPT ![i] = "reading"]
    /\ UNCHANGED <<chanVars, sockVars, keeperVars, cleanerVars, senderVars, r_ch,
                   panicked, envVars, histVars>>

\* c.reader is nil when no Dial has succeeded yet: nil pointer dereference.
ReceiverCallNil(i) ==
    /\ ~panicked /\ r_pc[i] = "read"
    /\ conn = NoConn
    /\ panicked' = TRUE
    /\ UNCHANGED <<chanVars, sockVars, keeperVars, cleanerVars, senderVars, receiverVars,
                   envVars, histVars>>

\* ReadString returns a line: one already buffered by the bufio.Reader, or
\* the first of a burst of k lines the server sends on an open socket.
LineArrives(s) ==
    \/ /\ rbuf[s] > 0
       /\ rbuf' = [rbuf EXCEPT ![s] = @ - 1]
       /\ UNCHANGED lines
    \/ /\ rbuf[s] = 0
       /\ sock[s] = "open"
       /\ \E k \in 1..(budget.lines - lines) :
            /\ lines' = lines + k
            /\ rbuf' = [rbuf EXCEPT ![s] = k - 1]

\* ReadString returns a line and ParseMessage decodes it.
ReceiverLine(i) ==
    /\ ~panicked /\ r_pc[i] = "reading"
    /\ LineArrives(r_rd[i])
    /\ r_pc' = [r_pc EXCEPT ![i] = "got"]
    /\ UNCHANGED <<chanVars, sock, keeperVars, cleanerVars, senderVars, r_rd, r_ch,
                   panicked, budget, forced, submitted, collabVars, pureVars, histVars>>

\* ReadString returns a line and ParseMessage rejects it.
ReceiverBadLine(i) ==
    /\ ~panicked /\ r_pc[i] = "reading"
    /\ LineArrives(r_rd[i])
    /\ r_pc' = [r_pc EXCEPT ![i] = "quit"]
    /\ UNCHANGED <<chanVars, sock, keeperVars, cleanerVars, senderVars, r_rd, r_ch,
                   panicked, budget, forced, submitted, collabVars, pureVars, histVars>>

\* ReadString returns an error: the socket was closed, here or by the server.
ReceiverReadErr(i) ==
    /\ ~panicked /\ r_pc[i] = "reading"
    /\ rbuf[r_rd[i]] = 0
    /\ sock[r_rd[i]] \in {"peer", "closed"}
    /\ readFailed' = [readFailed EXCEPT ![r_rd[i]] = TRUE]
    /\ r_pc' = [r_pc EXCEPT ![i] = "quit"]
    /\ UNCHANGED <<chanVars, sockVars, keeperVars, cleanerVars, senderVars, r_rd, r_ch,
                   panicked, envVars, enq, wire, tdn, closes>>

\* As ReceiverQuit, but the loop goes on to the next read after the signal.
ReceiverQuitRetry(i) ==
    /\ ~panicked /\ r_pc[i] = "quit"
    /\ Len(Quit) < ChanCap
    /\ Quit' = Append(Quit, r_rd[i])
    /\ r_pc' = [r_pc EXCEPT ![i] = "read"]
    /\ r_rd' = [r_rd EXCEPT ![i] = NoConn]
    /\ UNCHANGED <<reconnect, cgen, conn, l, Input, Output, quitsend, quitrecv, sockVars,
                   keeperVars, cleanerVars, senderVars, r_ch, panicked, envVars,
                   histVars>>

\* c.Quit <- struct{}{}; return
ReceiverQuit(i) ==
    /\ ~panicked /\ r_pc[i] = "quit"
    /\ Len(Quit) < ChanCap
    /\ Quit' = Append(Quit, r_rd[i])
    /\ r_pc' = [r_pc EXCEPT ![i] = "done"]
    /\ r_rd' = [r_rd EXCEPT ![i] = NoConn]
    /\ UNCHANGED <<reconnect, cgen, conn, l, Input, Output, quitsend, quitrecv, sockVars,
                   keeperVars, cleanerVars, senderVars, r_ch, panicked, envVars,
                   histVars>>

\* The select of Receiver evaluates c.Output and c.quitrecv.
ReceiverSelect(i) ==
    /\ ~panicked /\ r_pc[i] = "got"
    /\ r_ch' = [r_ch EXCEPT ![i] = cgen]
    /\ r_pc' = [r_pc EXCEPT ![i] = "select"]
    /\ UNCHANGED <<chanVars, sockVars, keeperVars, cleanerVars, senderVars, r_rd,
                   panicked, envVars, histVars>>

\* case c.Output <- *msg
ReceiverPublish(i) ==
    /\ ~panicked /\ r_pc[i] = "select"
    /\ ~IsClosed(r_ch[i])
    /\ Len(Output[r_ch[i]]) < ChanCap
    /\ Output' = [Output EXCEPT ![r_ch[i]] = Append(@, r_rd[i])]
    /\ r_pc' = [r_pc EXCEPT ![i] = "read"]
    /\ r_rd' = [r_rd EXCEPT ![i] = NoConn]
    /\ r_ch' = [r_ch EXCEPT ![i] = NoChan]
    /\ UNCHANGED <<reconnect, Quit, cgen, conn, l, Input, quitsend, quitrecv, sockVars,
                   keeperVars, cleanerVars, senderVars, panicked, envVars,
                   histVars>>

\* case c.Output <- *msg on a channel Keeper has closed: send on closed
\* channel, the process dies.
ReceiverPublishClosed(i) ==
    /\ ~panicked /\ r_pc[i] = "select"
    /\ IsClosed(r_ch[i])
    /\ panicked' = TRUE
    /\ UNCHANGED <<chanVars, sockVars, keeperVars, cleanerVars, senderVars, receiverVars,
                   envVars, histVars>>

\* case <-c.quitrecv: return
ReceiverStop(i) ==
    /\ ~panicked /\ r_pc[i] = "select"
    /\ \/ /\ quitrecv[r_ch[i]] > 0
          /\ quitrecv' = [quitrecv EXCEPT ![r_ch[i]] = @ - 1]
       \/ /\ quitrecv[r_ch[i]] = 0
          /\ IsClosed(r_ch[i])
          /\ UNCHANGED quitrecv
    /\ r_pc' = [r_pc EXCEPT ![i] = "done"]
    /\ r_rd' = [r_rd EXCEPT ![i] = NoConn]
    /\ r_ch' = [r_ch EXCEPT ![i] = NoChan]
    /\ UNCHANGED <<reconnect, Quit, cgen, conn, l, Input, Output, quitsend, sockVars,
                   keeperVars, cleanerVars, senderVars, panicked, envVars,
                   histVars>>

Receiver(i) ==
    \/ ReceiverCall(i) \/ ReceiverLine(i) \/ ReceiverBadLine(i) \/ ReceiverReadErr(i)
    \/ ReceiverQuit(i) \/ ReceiverSelect(i) \/ ReceiverPublish(i) \/ ReceiverStop(i)

-----------------------------------------------------------------------------
(* Collaborators and the server *)

\* A collaborator forces a reconnect: c.Quit <- struct{}{}
Force ==
    /\ ~panicked
    /\ forced < budget.force
    /\ Len(Quit) < ChanCap
    /\ Quit' = Append(Quit, NoConn)
    /\ forced' = forced + 1
    /\ UNCHANGED <<reconnect, cgen, conn, l, Input, Output, quitsend, quitrecv, sockVars,
                   keeperVars, cleanerVars, senderVars, receiverVars, panicked, budget,
                   submitted, lines, collabVars, pureVars, histVars>>

\* A collaborator submits its next message: c.Input <- m
Submit ==
    /\ ~panicked
    /\ submitted < budget.submit
    /\ SendInput(cgen, AppMsg(submitted + 1))
    /\ submitted' = submitted + 1
    /\ UNCHANGED <<reconnect, Quit, cgen, conn, l, Output, quitsend, quitrecv, sockVars,
                   keeperVars, cleanerVars, senderVars, receiverVars, panicked, budget, forced,
                   lines, collabVars, pureVars, wire, tdn, closes, readFailed>>

\* The send statement c.Input <- m of a collaborator, step by step: it
\* evaluates the field c.Input, without holding c.l, ...
SubmitEval ==
    /\ ~panicked
    /\ p_ch = NotSending
    /\ submitted < budget.submit
    /\ p_ch' = cgen
    /\ UNCHANGED <<chanVars, sockVars, keeperVars, cleanerVars, senderVars, receiverVars,
                   panicked, budget, forced, submitted, lines, ended, pureVars, histVars>>

\* ... and sends on that channel once its buffer has room.  A send on the
\* nil channel blocks for ever.
SubmitSend ==
    /\ ~panicked
    /\ p_ch # NotSending
    /\ ~IsClosed(p_ch)
    /\ SendInput(p_ch, AppMsg(submitted + 1))
    /\ submitted' = submitted + 1
    /\ p_ch' = NotSending
    /\ UNCHANGED <<reconnect, Quit, cgen, conn, l, Output, quitsend, quitrecv, sockVars,
                   keeperVars, cleanerVars, senderVars, receiverVars, panicked, budget, forced,
                   lines, ended, pureVars, wire, tdn, closes, readFailed>>

\* Keeper has closed the channel in the meantime: send on closed channel,
\* the process dies.
SubmitClosed ==
    /\ ~panicked
    /\ p_ch # NotSending
    /\ IsClosed(p_ch)
    /\ panicked' = TRUE
    /\ UNCHANGED <<chanVars, sockVars, keeperVars, cleanerVars, senderVars, receiverVars,
                   envVars, histVars>>

\* A collaborator takes the next message: <-c.Output, on the channel it
\* evaluated when it started to wait.
Consume(g) ==
    /\ ~panicked
    /\ g <= cgen
    /\ Output[g] # <<>>
    /\ Output' = [Output EXCEPT ![g] = Tail(@)]
    /\ UNCHANGED <<reconnect, Quit, cgen, conn, l, Input, quitsend, quitrecv, sockVars,
                   keeperVars, cleanerVars, senderVars, receiverVars, panicked, envVars,
                   histVars>>

\* <-c.Output on a channel Keeper has closed, with nothing left in its
\* buffer: the receive returns at once with the zero Message (ok = false,
\* the end of a range loop).
ConsumeClosed(g) ==
    /\ ~panicked
    /\ ~ended
    /\ IsClosed(g)
    /\ Output[g] = <<>>
    /\ ended' = TRUE
    /\ UNCHANGED <<chanVars, sockVars, keeperVars, cleanerVars, senderVars, receiverVars,
                   panicked, budget, forced, submitted, lines, p_ch, pureVars, histVars>>

\* The server closes its end of socket s.
ServerClose(s) ==
    /\ ~panicked
    /\ sock[s] = "open"
    /\ sock' = [sock EXCEPT ![s] = "peer"]
    /\ UNCHANGED <<chanVars, rbuf, keeperVars, cleanerVars, senderVars, receiverVars,
                   panicked, envVars, histVars>>

-----------------------------------------------------------------------------
(* The wire codec: ParseMessage and Message.String *)

\* A protocol line is a sequence of characters: a letter, a digit, the
\* colon and the space stand for their classes in the grammar
\*   [':' origin SPACE] command (SPACE param)* [SPACE ':' trailing]
Letters == {"a"}
Digits == {"1"}
Chars == Letters \cup Digits \cup {":", " "}
Lines == UNION {[1..n -> Chars] : n \in 0..MaxLineLen}
\* The two characters that end a line on the wire.
endline == <<"CR", "LF">>

\* Index of the first space of s, 0 when it has none.
FirstSpace(s) ==
    IF \E i \in 1..Len(s) : s[i] = " "
    THEN CHOOSE i \in 1..Len(s) : s[i] = " " /\ \A j \in 1..(i - 1) : s[j] # " "
    ELSE 0

\* Index of the space of the first " :" of s, 0 when it has none.
FirstTrailing(s) ==
    IF \E i \in 1..(Len(s) - 1) : s[i] = " " /\ s[i + 1] = ":"
    THEN CHOOSE i \in 1..(Len(s) - 1) :
            /\ s[i] = " " /\ s[i + 1] = ":"
            /\ \A j \in 1..(i - 1) : ~(s[j] = " " /\ s[j + 1] = ":")
    ELSE 0

\* s cut at every space.
RECURSIVE Fields(_)
Fields(s) ==
    IF FirstSpace(s) = 0 THEN <<s>>
    ELSE <<SubSeq(s, 1, FirstSpace(s) - 1)>> \o Fields(SubSeq(s, FirstSpace(s) + 1, Len(s)))

\* command = letters+ or exactly 3 digits.
IsCommand(t) ==
    /\ t # <<>>
    /\ \/ \A i \in 1..Len(t) : t[i] \in Letters
       \/ Len(t) = 3 /\ \A i \in 1..Len(t) : t[i] \in Digits

\* A syntactically valid line: the part before the first " :" is made of
\* non-empty tokens separated by single spaces, an optional origin token
\* that starts with ':', then the command, then the params.
ValidLine(s) ==
    LET tr == FirstTrailing(s)
        toks == Fields(IF tr = 0 THEN s ELSE SubSeq(s, 1, tr - 1))
        hasOrigin == toks[1] # <<>> /\ toks[1][1] = ":"
        body == IF hasOrigin THEN Tail(toks) ELSE toks
    IN  /\ \A i \in 1..Len(toks) : toks[i] # <<>>
        /\ hasOrigin => Len(toks[1]) >= 2
        /\ body # <<>> /\ IsCommand(body[1])
        /\ \A i \in 2..Len(body) : body[i][1] # ":"

\* What ParseMessage returns with a non-nil error.
MalformedMessage == [ok |-> FALSE]

\* ParseMessage(raw), a scan from left to right: the origin up to the
\* first space when the line starts with ':', the trailing after the first
\* " :" of what follows, the command and the params between them.  An
\* absent origin or trailing is the empty sequence, a present one the
\* sequence of its one value.
ParseMessage(raw) ==
    LET sp == FirstSpace(raw)
        hasOrigin == raw # <<>> /\ raw[1] = ":"
        rest == IF hasOrigin THEN SubSeq(raw, sp + 1, Len(raw)) ELSE raw
        tr == FirstTrailing(rest)
        toks == Fields(IF tr = 0 THEN rest ELSE SubSeq(rest, 1, tr - 1))
    IN  IF (hasOrigin /\ sp = 0) \/ ~IsCommand(toks[1]) THEN MalformedMessage
        ELSE [ok |-> TRUE,
              origin |-> IF hasOrigin THEN <<SubSeq(raw, 2, sp - 1)>> ELSE <<>>,
              command |-> toks[1],
              params |-> Tail(toks),
              trailing |-> IF tr = 0 THEN <<>> ELSE <<SubSeq(rest, tr + 2, Len(rest))>>]

\* Every param after a space.
RECURSIVE JoinParams(_)
JoinParams(ps) ==
    IF ps = <<>> THEN <<>> ELSE <<" ">> \o Head(ps) \o JoinParams(Tail(ps))

\* As MessageString, but the trailing is written only when it is not empty.
MessageStringNonEmpty(msg) ==
    (IF msg.origin # <<>> THEN <<":">> \o msg.origin[1] \o <<" ">> ELSE <<>>)
    \o msg.command
    \o JoinParams(msg.params)
    \o (IF msg.trailing # <<>> /\ msg.trailing[1] # <<>>
        THEN <<" ", ":">> \o msg.trailing[1] ELSE <<>>)
    \o endline

\* msg.String() + endline: the serialized message as Sender writes it.
MessageString(msg) ==
    (IF msg.origin # <<>> THEN <<":">> \o msg.origin[1] \o <<" ">> ELSE <<>>)
    \o msg.command
    \o JoinParams(msg.params)
    \o (IF msg.trailing # <<>> THEN <<" ", ":">> \o msg.trailing[1] ELSE <<>>)
    \o endline

\* The line as the reader frames it: without the terminator.
Framed(s) == SubSeq(s, 1, Len(s) - Len(endline))

\* msg, err := ParseMessage(raw)
Parse ==
    /\ stage = "line"
    /\ parsed' = ParseMessage(line)
    /\ stage' = IF ParseMessage(line).ok THEN "parsed" ELSE "malformed"
    /\ UNCHANGED <<chanVars, sockVars, keeperVars, cleanerVars, senderVars, receiverVars,
                   panicked, budget, forced, submitted, lines, collabVars,
                   line, serialized, trailing, replies, histVars>>

\* msg.String() + endline
Serialize ==
    /\ stage = "parsed"
    /\ serialized' = MessageString(parsed)
    /\ stage' = "serialized"
    /\ UNCHANGED <<chanVars, sockVars, keeperVars, cleanerVars, senderVars, receiverVars,
                   panicked, budget, forced, submitted, lines, collabVars,
                   line, parsed, trailing, replies, histVars>>

\* No role of the Connection takes part in a run of the codec or of linktitle.
NoBudget == [gens |-> 0, force |-> 0, submit |-> 0, lines |-> 0, servers |-> 0]

\* The codec is given any line of at most MaxLineLen characters.
InitCodec ==
    /\ Setup /\ budget = NoBudget
    /\ LinktitleIdle
    /\ stage = "line"
    /\ line \in Lines
    /\ parsed = <<>> /\ serialized = <<>>

Codec == Parse \/ Serialize

SpecCodec == InitCodec /\ [][Codec]_vars

-----------------------------------------------------------------------------
(* linktitle (src/bot/urltitle.go) *)

\* msg.Trailing is a sequence of pieces of text: the letters "notitle", a
\* URL whose page has a title, a URL whose page has none, some other text,
\* the space, and the CTCP delimiter \001.
UrlTitled == "http://titled"
UrlUntitled == "http://untitled"
Urls == {UrlTitled, UrlUntitled}
Pieces == {"notitle", UrlTitled, UrlUntitled, "text", " ", "\\001"}
Trailings == UNION {[1..n -> Pieces] : n \in 0..MaxTrailing}

\* strings.Trim(s, "\001")
RECURSIVE Trim(_)
Trim(s) ==
    IF s = <<>> THEN s
    ELSE IF Head(s) = "\\001" THEN Trim(Tail(s))
    ELSE IF s[Len(s)] = "\\001" THEN Trim(SubSeq(s, 1, Len(s) - 1))
    ELSE s

\* regexp.Match("https?://", s)
MatchUrl(s) == \E i \in 1..Len(s) : s[i] \in Urls

\* trimLink.ReplaceAll(s, "http"): what precedes the first "http" is cut.
trimLink(s) ==
    IF MatchUrl(s)
    THEN SubSeq(s, CHOOSE i \in 1..Len(s) : s[i] \in Urls /\ \A j \in 1..(i - 1) : s[j] \notin Urls,
                Len(s))
    ELSE s

\* The title the first matching entry of customDataFetchers returns for s;
\* the last entry matches every s.
fetcher(s) == IF Head(s) = UrlUntitled THEN "no title" ELSE <<"title of", s>>

\* The loop over the words: r as collected so far, and whether the loop
\* was left by the return at the word "notitle".
RECURSIVE Words(_, _)
Words(ws, r) ==
    IF ws = <<>> THEN [returned |-> FALSE, r |-> r]
    ELSE IF Head(ws) = <<"notitle">> THEN [returned |-> TRUE, r |-> r]
    ELSE IF MatchUrl(Head(ws)) /\ fetcher(trimLink(Head(ws))) # "no title"
         THEN Words(Tail(ws), Append(r, fetcher(trimLink(Head(ws)))))
         ELSE Words(Tail(ws), r)

\* As linktitle, with break in the place of return at the word "notitle".
linktitleBreak(t) ==
    LET w == Words(Fields(Trim(t)), <<>>)
    IN  IF Len(w.r) > 0 THEN <<w.r>> ELSE <<>>

\* linktitle(output, msg): the calls of output it makes, each with the
\* titles joined in its reply.
linktitle(t) ==
    LET w == Words(Fields(Trim(t)), <<>>)
    IN  IF ~w.returned /\ Len(w.r) > 0 THEN <<w.r>> ELSE <<>>

\* The dispatcher calls linktitle on a PRIVMSG.
Linktitle ==
    /\ stage = "msg"
    /\ replies' = linktitle(trailing)
    /\ stage' = "handled"
    /\ UNCHANGED <<chanVars, sockVars, keeperVars, cleanerVars, senderVars, receiverVars,
                   panicked, budget, forced, submitted, lines, collabVars,
                   line, parsed, serialized, trailing, histVars>>

\* linktitle is given any trailing text of at most MaxTrailing pieces.
InitTitle ==
    /\ Setup /\ budget = NoBudget
    /\ CodecIdle
    /\ stage = "msg"
    /\ trailing \in Trailings
    /\ replies = <<>>

SpecTitle == InitTitle /\ [][Linktitle]_vars

-----------------------------------------------------------------------------
(* Specifications *)

\* The lifecycle alone: the collaborators submit nothing and the server
\* sends nothing; failures are forced signals and closed sockets.
InitLife ==
    /\ Setup /\ PureIdle
    /\ budget = [gens |-> MaxGen, force |-> MaxForce, submit |-> 0, lines |-> 0, servers |-> 1]

Lifecycle ==
    \/ Keeper
    \/ Cleaner
    \/ \E i \in Gens : Sender(i)
    \/ \E i \in Gens :
          \/ ReceiverCall(i) \/ ReceiverReadErr(i) \/ ReceiverQuit(i)
    \/ Force
    \/ \E g \in Gens : ServerClose(g)

\* The reachable server: every dial succeeds.
SpecReach == InitLife /\ [][Lifecycle]_vars

\* The outbound path: a collaborator also submits messages on c.Input.
InitOut ==
    /\ Setup /\ PureIdle
    /\ budget = [gens |-> MaxGen, force |-> MaxForce, submit |-> MaxSubmit, lines |-> 0, servers |-> 1]

Outbound == Lifecycle \/ Submit

SpecOut == InitOut /\ [][Outbound]_vars

\* The outbound sink as the collaborator's goroutine executes it, at any
\* moment of the lifecycle.
Sink == Lifecycle \/ SubmitEval \/ SubmitSend \/ SubmitClosed

SpecSink == InitOut /\ [][Sink]_vars

\* The inbound path: the server also sends lines, which Receiver decodes
\* and publishes on c.Output and a collaborator takes from there.
InitIn ==
    /\ Setup /\ PureIdle
    /\ budget = [gens |-> MaxGen, force |-> MaxForce, submit |-> 0, lines |-> MaxLines, servers |-> 1]

Inbound ==
    \/ Lifecycle
    \/ \E i \in Gens :
          \/ ReceiverLine(i) \/ ReceiverBadLine(i) \/ ReceiverSelect(i)
          \/ ReceiverPublish(i) \/ ReceiverPublishClosed(i) \/ ReceiverStop(i)
    \/ \E g \in Gens : Consume(g)

SpecIn == InitIn /\ [][Inbound]_vars

\* The lifecycle as a collaborator waiting on c.Output sees it.
Source == Lifecycle \/ \E g \in Gens : ConsumeClosed(g)

SpecSource == InitLife /\ [][Source]_vars

\* The inbound path when no collaborator raises the failure signal: the
\* failures are the read errors and the lines ParseMessage rejects.
InitRecv ==
    /\ Setup /\ PureIdle
    /\ budget = [gens |-> RecvGens, force |-> 0, submit |-> 0, lines |-> MaxLines, servers |-> 1]

Receiving ==
    \/ Keeper
    \/ Cleaner
    \/ \E i \in Gens : Sender(i)
    \/ \E i \in Gens :
          \/ ReceiverCall(i) \/ ReceiverLine(i) \/ ReceiverBadLine(i) \/ ReceiverReadErr(i)
          \/ ReceiverQuit(i) \/ ReceiverSelect(i) \/ ReceiverPublish(i)
    \/ \E g \in Gens : Consume(g)
    \/ \E g \in Gens : ServerClose(g)

SpecRecv == InitRecv /\ [][Receiving]_vars

\* A run without any failure: nobody raises the failure signal and the
\* server keeps the socket open and silent, while a collaborator submits
\* MaxFifo messages.
InitFifo ==
    /\ Setup /\ PureIdle
    /\ budget = [gens |-> MaxGen, force |-> 0, submit |-> MaxFifo, lines |-> 0, servers |-> 1]

NoFailure ==
    \/ Keeper
    \/ \E i \in Gens : SenderSelect(i) \/ SenderTake(i) \/ SenderWrite(i)
    \/ \E i \in Gens : ReceiverCall(i)
    \/ Submit

SpecFifo == InitFifo /\ [][NoFailure]_vars

\* Dials may fail.
Next ==
    \/ Lifecycle
    \/ KeeperDialFail
    \/ CleanerCloseNil
    \/ \E i \in Gens : SenderWriteNil(i) \/ ReceiverCallNil(i)

\* The Go scheduler runs every goroutine that can take a step; the
\* collaborators and the server are under no obligation.
Fairness ==
    /\ WF_vars(Keeper)
    /\ WF_vars(Cleaner)
    /\ \A i \in Gens : WF_vars(Sender(i))
    /\ \A i \in Gens : WF_vars(ReceiverCall(i) \/ ReceiverReadErr(i) \/ ReceiverQuit(i))

FairReach == SpecReach /\ Fairness

Init == InitLife

Spec == Init /\ [][Next]_vars

\* A goroutine about to dereference a nil reader, writer or conn does so.
FairnessNil ==
    /\ WF_vars(CleanerCloseNil)
    /\ \A i \in Gens : WF_vars(SenderWriteNil(i)) /\ WF_vars(ReceiverCallNil(i))

FairSpec == Spec /\ Fairness /\ FairnessNil

\* Setup with a pool of any size up to MaxServers, the empty one included;
\* every dial may succeed or fail, and nobody forces a failure.
InitPool ==
    /\ Setup /\ PureIdle
    /\ \E n \in 0..MaxServers :
          budget = [gens |-> RecvGens, force |-> 0, submit |-> 0, lines |-> 0, servers |-> n]

Dialling ==
    \/ Keeper \/ KeeperDialFail \/ KeeperPickEmpty
    \/ Cleaner
    \/ \E i \in Gens : Sender(i) \/ SenderWriteNil(i)
    \/ \E i \in Gens :
          \/ ReceiverCall(i) \/ ReceiverCallNil(i) \/ ReceiverReadErr(i) \/ ReceiverQuit(i)
    \/ \E g \in Gens : ServerClose(g)

SpecPool == InitPool /\ [][Dialling]_vars

-----------------------------------------------------------------------------
(* Blocked roles *)

\* No Sender can take a token from c.quitsend any more, now or later.
SendersGone == k_pc # "spawn" /\ \A i \in Gens : s_pc[i] \in {"idle", "done"}

\* No Receiver can take a token from c.quitrecv any more, now or later.
ReceiversGone == k_pc # "spawn" /\ \A i \in Gens : r_pc[i] \in {"idle", "done"}

\* Cleaner holds c.l and waits in a channel send that can never complete:
\* a send on the nil channel, or on a full channel nobody receives from.
CleanerBlockedForever ==
    /\ l = "cleaner"
    /\ \/ c_pc \in {"qs", "qr"} /\ cgen = NoChan
       \/ c_pc = "qs" /\ cgen # NoChan /\ quitsend[cgen] = ChanCap /\ SendersGone
       \/ c_pc = "qr" /\ cgen # NoChan /\ quitrecv[cgen] = ChanCap /\ ReceiversGone
       \/ c_pc = "rc" /\ reconnect = ChanCap /\ k_pc = "lock"

\* Keeper waits for a mutex that is never released, or in a send on a full
\* c.Input that no Sender will take from.
KeeperBlockedForever ==
    \/ k_pc = "lock" /\ CleanerBlockedForever
    \/ /\ k_pc \in {"nick", "user"}
       /\ Len(Input[cgen]) = ChanCap
       /\ \A i \in 1..cgen : s_pc[i] = "done"

\* Once blocked forever, blocked forever: the two predicates are stable.
BlockedIsStable ==
    [][/\ CleanerBlockedForever => CleanerBlockedForever'
       /\ KeeperBlockedForever => KeeperBlockedForever']_vars

-----------------------------------------------------------------------------
(* Claims *)

\* C1: after Setup, with a failure signal raised on Quit right away, the
\* system never reaches a state in which Cleaner or Keeper is blocked
\* forever (Cleaner in a channel send while it holds the mutex, Keeper in
\* Lock).
C1_NoDeadlock == ~CleanerBlockedForever /\ ~KeeperBlockedForever

\* Sender and Receiver goroutines that were started and have not returned.
RunningSenders == {i \in Gens : s_pc[i] \notin {"idle", "done"}}
RunningReceivers == {i \in Gens : r_pc[i] \notin {"idle", "done"}}

\* C2: in every reachable state at most one Sender and at most one
\* Receiver are running: when Keeper starts the roles of generation N+1,
\* those of generation N have exited.
C2_NoOverlap ==
    /\ Cardinality(RunningSenders) <= 1
    /\ Cardinality(RunningReceivers) <= 1

\* Cleaner completes a teardown: c.conn.Close() and c.l.Unlock().
TeardownDone == c_pc = "close" /\ c_pc' = "recv"

\* C3: a failure signal a Receiver raises for a socket that was already
\* torn down (the duplicate of the signal that caused the teardown) is a
\* no-op: it leads to no further teardown, of that generation or the next,
\* and it does not block Cleaner.
C3_DuplicateNoOp ==
    /\ [][TeardownDone /\ c_sig # NoConn => tdn[c_sig] = 0]_vars
    /\ [](c_pc # "recv" /\ c_sig # NoConn /\ tdn[c_sig] > 0 => ~CleanerBlockedForever)

\* A generation is active: Keeper made its channels and dialled its socket,
\* and Cleaner has not torn it down.
GenActive == cgen # NoChan /\ dialled[cgen] = "ok" /\ tdn[cgen] = 0

\* C4: Cleaner goes through its teardown (stop signals, reconnect, Close)
\* only while a generation is active, and Keeper replaces the channels only
\* when no generation is active.
C4_InactiveNoOp ==
    /\ [](c_pc \in {"qs", "qr", "rc", "close"} => GenActive)
    /\ [][cgen' # cgen => ~GenActive]_vars

\* Generation g is connected: its dial succeeded and its roles were started.
Connected(g) == dialled[g] = "ok" /\ s_pc[g] # "idle" /\ r_pc[g] # "idle"

\* C5: under fair scheduling and a reachable server, a failure signal
\* raised during a connected generation is eventually followed by a new
\* connected generation.
C5_ReconnectLiveness ==
    \A g \in 1..(MaxGen - 1) :
        [](Quit # <<>> /\ cgen = g /\ Connected(g) /\ tdn[g] = 0
             => <>(\E h \in Gens : h > g /\ Connected(h)))

IsRegistration(m) == m \in {NickMsg, UserMsg}

\* The registration messages sent on c.Input of channel set g, in order.
Registration(g) == SelectSeq(enq[g], IsRegistration)

\* C6: every generation whose dial succeeds gets exactly one NICK and one
\* USER on its outbound queue, NICK first: never two, and eventually not
\* zero.
C6_OneRegistration ==
    /\ [](\A g \in Gens : Registration(g) \in {<<>>, <<NickMsg>>, <<NickMsg, UserMsg>>})
    /\ \A g \in Gens : [](dialled[g] = "ok" => <>(Registration(g) = <<NickMsg, UserMsg>>))

\* C7: on every socket the first message written is NICK and the second
\* is USER: nothing a collaborator submitted is written before or between
\* the two registration messages.
C7_RegistrationFirst ==
    \A s \in Gens :
        /\ Len(wire[s]) >= 1 => wire[s][1] = NickMsg
        /\ Len(wire[s]) >= 2 => wire[s][2] = UserMsg

IsPrefix(a, b) == Len(a) <= Len(b) /\ SubSeq(b, 1, Len(a)) = a

\* Every Sender waits for the next message and c.Input holds none.
OutboundDrained ==
    /\ Input[cgen] = <<>>
    /\ \A i \in Gens : s_pc[i] \in {"idle", "select"} /\ (s_pc[i] = "select" => s_ch[i] = cgen)

\* C8: without a failure, the socket sees the messages sent on c.Input of
\* the generation in the order they were sent, each once: what was written
\* is always a prefix of what was sent, and all of it once Sender has
\* drained the queue.
C8_OutboundFifo ==
    /\ \A g \in Gens : IsPrefix(wire[g], enq[g])
    /\ cgen # NoChan /\ OutboundDrained => wire[cgen] = enq[cgen]

IsApp(m) == m.Command = "PRIVMSG"

\* Three submitted messages were written to the socket, in the order of
\* their submission.
C8_ThreeWritten ==
    /\ cgen # NoChan
    /\ SelectSeq(wire[cgen], IsApp) = <<AppMsg(1), AppMsg(2), AppMsg(3)>>

\* Receiver publishes a message on c.Output of channel set g.
Publishes(g) == Len(Output'[g]) > Len(Output[g])

\* C9: once a read of socket s has failed, no message read from socket s
\* is published on any inbound queue.
C9_NothingAfterReadFailure ==
    [][\A g \in Gens : Publishes(g) => ~readFailed[Output'[g][Len(Output'[g])]]]_vars

\* Sender i comes back from a write to a socket that is not open.
WriteFails(i) == s_pc[i] = "write" /\ s_pc'[i] # "write" /\ sock[conn] # "open"

\* C10: when the write or the flush fails, Sender raises the failure signal
\* on Quit and does not go back to taking messages.
C10_WriteFailureSignals ==
    [][\A i \in Gens : WriteFails(i) => Len(Quit') > Len(Quit) /\ s_pc'[i] # "loop"]_vars

\* C11: a Receiver whose read or whose ParseMessage returned an error
\* publishes nothing and reads nothing more: its one further step is the
\* send of one failure signal on Quit, and then it has returned for good.
C11_ErrorRaisesOnceAndExits ==
    [][\A i \in Gens :
        /\ (r_pc[i] = "reading" /\ r_pc'[i] = "quit") => (Output' = Output /\ Quit' = Quit)
        /\ r_pc[i] = "quit" =>
              \/ r_pc'[i] = "quit"
              \/ /\ r_pc'[i] = "done"
                 /\ Quit' = Append(Quit, r_rd[i])
                 /\ Output' = Output
        /\ r_pc[i] = "done" => r_pc'[i] = "done"]_vars

\* Receiver 1 has returned after a failed read and its signal waits on Quit.
C11_RaisedAndGone ==
    /\ r_pc[1] = "done" /\ readFailed[1]
    /\ Quit = <<1>>
    /\ Output[1] = <<>>

\* C12: Sender and Receiver of generation g run, and registration
\* messages are sent on its Input, only when the g-th Dial succeeded; no
\* role dereferences a reader or writer that no Dial has set.
C12_RolesOnlyAfterDial ==
    /\ \A g \in Gens :
          (s_pc[g] # "idle" \/ r_pc[g] # "idle" \/ enq[g] # <<>>) => dialled[g] = "ok"
    /\ ~(panicked /\ conn = NoConn)

\* C13: every failed dial is eventually followed by another dial attempt.
C13_RetryAfterFailedDial ==
    \A g \in 1..(MaxGen - 1) : [](dialled[g] = "fail" => <>Attempted(g + 1))

\* C14: a submission never fails: the channel a collaborator sends on is
\* neither the nil channel of a Connection without generation nor a channel
\* Keeper has closed.
C14_SubmissionAccepted == p_ch # NoChan /\ ~(p_ch \in Gens /\ IsClosed(p_ch))

\* C15: the inbound source never signals end-of-stream: no receive of a
\* collaborator on c.Output reports a closed channel.
C15_NoEndOfStream == ~ended

\* C16: every socket is closed at most once, and the socket Cleaner is
\* about to close is one a successful Dial created.
C16_ClosedAtMostOnce ==
    /\ \A s \in Gens : closes[s] <= 1
    /\ c_pc = "close" => conn # NoConn

\* C17: with an empty server pool Setup fails before Keeper does anything:
\* no iteration starts, no channel is made, no server is drawn.
C17_EmptyPoolFailsFast ==
    budget.servers = 0 => (k_pc = "recv" /\ cgen = NoChan /\ ~panicked)

C19_RoundTrip ==
    ValidLine(line) =>
        /\ stage # "malformed"
        /\ stage = "serialized" => Framed(serialized) = line

\* A valid line with an origin, a param and an empty trailing went through.
C19_EmptyTrailingKept ==
    /\ stage = "serialized" /\ ValidLine(line)
    /\ parsed.origin # <<>> /\ parsed.params # <<>>
    /\ parsed.trailing = << <<>> >>

\* A word of the trailing text, cut at the spaces, is "notitle".
HasNotitle(t) == \E i \in 1..Len(Fields(t)) : Fields(t)[i] = <<"notitle">>

\* Some word of the trailing text holds a URL whose title is not "no title".
HasTitle(t) ==
    \E i \in 1..Len(Fields(t)) :
        \E j \in 1..Len(Fields(t)[i]) :
            /\ Fields(t)[i][j] \in Urls
            /\ fetcher(SubSeq(Fields(t)[i], j, Len(Fields(t)[i]))) # "no title"

\* C20: linktitle makes no output for a message with the word "notitle",
\* whatever URLs stand before or after it; it calls output at most once,
\* and only when a title other than "no title" was fetched.
C20_NotitleSilences ==
    stage = "handled" =>
        /\ HasNotitle(trailing) => replies = <<>>
        /\ Len(replies) <= 1
        /\ replies # <<>> => HasTitle(trailing)

\* "http://titled notitle": a title was fetched and no output was made.
C20_TitledUrlThenNotitle ==
    /\ stage = "handled"
    /\ trailing = <<UrlTitled, " ", "notitle">>
    /\ replies = <<>>

\* Cleaner is inside its teardown: between Lock and Unlock.
InTeardown == c_pc \in {"qs", "qr", "rc", "close"}

\* C21: Keeper holds c.l from the making of the channels until Sender and
\* Receiver are started, Cleaner holds it throughout its teardown, and no
\* teardown runs between Keeper's dial and Keeper's start of the roles.
C21_LockingDiscipline ==
    /\ k_pc \in {"dial", "spawn"} => l = "keeper"
    /\ InTeardown => l = "cleaner"
    /\ ~(k_pc = "spawn" /\ InTeardown)

\* The channel sets that were made and are not closed.
LiveSets == {g \in Gens : g <= cgen /\ ~IsClosed(g)}

\* Sender i and Receiver i run only once channel set i is installed, and
\* the channels their selects wait on are never those of an earlier set.
InstalledBeforeStart ==
    \A i \in Gens :
        /\ (s_pc[i] # "idle" \/ r_pc[i] # "idle") => cgen >= i
        /\ s_ch[i] # NoChan => s_ch[i] >= i
        /\ r_ch[i] # NoChan => r_ch[i] >= i

C23_GenerationIsolation ==
    \A i \in Gens :
        /\ s_ch[i] \in {NoChan, i}
        /\ r_ch[i] \in {NoChan, i}
        /\ r_rd[i] \in {NoConn, i}
        /\ s_pc[i] = "write" => conn = i

\* Receiver i returns in this step.
ReceiverExits(i) == r_pc[i] # "done" /\ r_pc'[i] = "done"

\* C24: once Cleaner has torn generation g down, Sender g and Receiver g
\* eventually return, and the return of Receiver g raises no failure signal.
C24_RolesExitQuietly ==
    /\ \A g \in Gens : [](tdn[g] > 0 => <>(s_pc[g] = "done" /\ r_pc[g] = "done"))
    /\ [][\A g \in Gens : (tdn[g] > 0 /\ ReceiverExits(g)) => Quit' = Quit]_vars

\* Keeper waits in the send of NICK or USER on a full c.Input while every
\* Sender started so far has returned: nobody will ever take from it, and
\* only Keeper starts Senders.
KeeperStuckRegistering ==
    /\ k_pc \in {"nick", "user"}
    /\ Len(Input[cgen]) = ChanCap
    /\ \A i \in 1..cgen : s_pc[i] = "done"

\* C25: Keeper never blocks for ever in the sends of NICK and USER.
C25_KeeperNeverStuck == ~KeeperStuckRegistering

=============================================================================
